---- MODULE Spec2Model ----
(***************************************************************************)
(* A model of the sales-outreach assistant: the policy layer of            *)
(* ai_engine.py (classification, scoring, cold-email generation), the      *)
(* Sequence Controller and the Reply Monitor of automation.py, the Lead    *)
(* Store helpers of database.py and the Mailbox Gateway of integrations.py.*)
(*                                                                         *)
(* Python values are records tagged with their type (field t); a call      *)
(* yields an outcome, either Ok(value) or Raise(exception class).          *)
(* Text is a sequence: of characters where the code works on characters    *)
(* (classify_response), of tokens where it works on markers                *)
(* (generate_cold_email).                                                  *)
(***************************************************************************)
EXTENDS Integers, Sequences, FiniteSets, TLC

\* ------------------------------------------------------------------ bounds
\* Longest generator answer, in tokens, that is not a JSON document.
MaxToks == 3
\* Last value of the clock time.time() reads.
MaxTime == 1
\* Poll cycles one monitor is followed through.
MaxCycles == 2

\* ------------------------------------------------------- values, outcomes
Range(s) == {s[i] : i \in DOMAIN s}

PyNone == [t |-> "None"]
PyInt == [t |-> "int"]
PyStr(s) == [t |-> "str", s |-> s]
PyList(items) == [t |-> "list", items |-> items]

Ok(v) == [exc |-> "none", val |-> v]
Raise(e) == [exc |-> e, val |-> PyNone]

\* The exception classes the modelled calls raise; all derive from Exception.
ExceptionClasses ==
    {"AttributeError", "TypeError", "KeyError", "IndexError", "JSONDecodeError",
     "ConnectionError", "HttpError", "RuntimeError"}

\* `except ConnectionError`: the clause of the database helpers.
ExceptConnectionError(e) == e = "ConnectionError"

ExceptOnlyConnectionError(e) == e = "ConnectionError"

\* `except Exception`: the clause of the engine, the controller and the monitor.
ExceptException(e) == e \in ExceptionClasses

\* `except json.JSONDecodeError`: the inner clause of generate_cold_email.
ExceptJSONDecodeError(e) == e = "JSONDecodeError"

\* ------------------------------------------------------------ config.py
\* CALENDLY_LINK, as one token of a text.
CALENDLY_LINK == "LINK"

\* LEAD_STATUS_MAP
LEAD_STATUS_MAP ==
    [imported |-> "Imported", sent |-> "Email Sent", replied |-> "Replied",
     interested |-> "Interested", not_interested |-> "Not Interested"]

StatusMapGetKeyItself(key, default) ==
    IF key \in DOMAIN LEAD_STATUS_MAP THEN LEAD_STATUS_MAP[key] ELSE key

\* dict.get(key, default) on LEAD_STATUS_MAP
StatusMapGet(key, default) ==
    IF key \in DOMAIN LEAD_STATUS_MAP THEN LEAD_STATUS_MAP[key] ELSE default

\* ------------------------------------------- ai_engine.py: classification
UpperCase ==
    <<"A", "B", "C", "D", "E", "F", "G", "H", "I", "J", "K", "L", "M", "N", "O",
      "P", "Q", "R", "S", "T", "U", "V", "W", "X", "Y", "Z">>
LowerCase ==
    <<"a", "b", "c", "d", "e", "f", "g", "h", "i", "j", "k", "l", "m", "n", "o",
      "p", "q", "r", "s", "t", "u", "v", "w", "x", "y", "z">>
Whitespace == {" ", "\n", "\t", "\r"}

\* str.strip()
RECURSIVE LStrip(_)
LStrip(s) == IF s # <<>> /\ Head(s) \in Whitespace THEN LStrip(Tail(s)) ELSE s
RECURSIVE RStrip(_)
RStrip(s) ==
    IF s # <<>> /\ s[Len(s)] \in Whitespace THEN RStrip(SubSeq(s, 1, Len(s) - 1)) ELSE s
Strip(s) == RStrip(LStrip(s))

\* str.lower()
LowerChar(c) ==
    IF \E i \in DOMAIN UpperCase : UpperCase[i] = c
    THEN LowerCase[CHOOSE i \in DOMAIN UpperCase : UpperCase[i] = c]
    ELSE c
Lower(s) == [i \in DOMAIN s |-> LowerChar(s[i])]

\* str.replace(" ", "_")
ReplaceSpaces(s) == [i \in DOMAIN s |-> IF s[i] = " " THEN "_" ELSE s[i]]

\* The four categories of classify_response, each with its spelling.
CategorySpelling ==
    [interested |-> <<"i", "n", "t", "e", "r", "e", "s", "t", "e", "d">>,
     not_interested |->
        <<"n", "o", "t", "_", "i", "n", "t", "e", "r", "e", "s", "t", "e", "d">>,
     neutral |-> <<"n", "e", "u", "t", "r", "a", "l">>,
     ooo |-> <<"o", "o", "o">>]
ValidCategories == DOMAIN CategorySpelling

\* What gemini.generate_content(prompt) can give classify_response. GeminiAPI as
\* shipped defines generate_text only, so the attribute lookup raises
\* AttributeError; a generator that implements the call answers with a category
\* in some spelling, with other text, with None, or raises.
ClassifyAnswers ==
    {Raise("AttributeError"), Raise("RuntimeError"), Ok(PyNone)}
    \cup {Ok(PyStr(CategorySpelling[k])) : k \in ValidCategories}
    \cup {Ok(PyStr(s)) : s \in
            {<<" ", "I", "n", "t", "e", "r", "e", "s", "t", "e", "d", "\n">>,
             <<"N", "o", "t", " ", "I", "n", "t", "e", "r", "e", "s", "t", "e", "d">>,
             <<"n", "o", "t", " ", " ", "i", "n", "t", "e", "r", "e", "s", "t", "e", "d">>,
             <<"N", "o", "t", "\t", "I", "n", "t", "e", "r", "e", "s", "t", "e", "d">>,
             <<"O", "O", "O">>,
             <<"N", "E", "U", "T", "R", "A", "L", " ">>,
             <<"m", "a", "y", "b", "e">>,
             <<>>}}

\* The try body of classify_response up to the normalised answer:
\* gemini.generate_content(prompt).strip().lower().replace(" ", "_")
NormalisedAnswer(answer) ==
    IF answer.exc # "none" THEN answer
    ELSE IF answer.val.t # "str" THEN Raise("AttributeError")
    ELSE Ok(PyStr(ReplaceSpaces(Lower(Strip(answer.val.s)))))

CategoryUnchecked(chars) ==
    IF \E k \in ValidCategories : CategorySpelling[k] = chars
    THEN CHOOSE k \in ValidCategories : CategorySpelling[k] = chars
    ELSE "unknown"

\* `if classification in [...]: return classification` and the fallback after it.
CategoryOrNeutral(chars) ==
    IF \E k \in ValidCategories : CategorySpelling[k] = chars
    THEN CHOOSE k \in ValidCategories : CategorySpelling[k] = chars
    ELSE "neutral"

\* classify_response(email_body), given the generator's answer to its prompt.
classify_response(answer) ==
    LET c == NormalisedAnswer(answer)
    IN  IF c.exc = "none" THEN Ok(CategoryOrNeutral(c.val.s))
        ELSE IF ExceptException(c.exc) THEN Ok("neutral")
        ELSE Raise(c.exc)

\* ---------------------------------------------------- ai_engine.py: score
status_to_score ==
    [interested |-> "Hot", replied |-> "Warm", neutral |-> "Warm",
     imported |-> "Warm", sent |-> "Warm", ooo |-> "Warm",
     not_interested |-> "Cold", booked |-> "Hot"]

score_lead_default_cold(current_status) ==
    IF current_status \in DOMAIN status_to_score
    THEN status_to_score[current_status]
    ELSE "Cold"

\* score_lead(current_status): status_to_score.get(current_status, "Warm")
score_lead(current_status) ==
    IF current_status \in DOMAIN status_to_score
    THEN status_to_score[current_status]
    ELSE "Warm"

\* The strings score_lead is applied to: the tokens of its table, the stored
\* status strings of LEAD_STATUS_MAP, and reply snippets.
Snippets ==
    {"interested", "not_interested",
     "Yes I'm very interested, let's talk",
     "I'll be out of office until Monday"}
ScoreInputs ==
    DOMAIN status_to_score \cup Range(LEAD_STATUS_MAP) \cup Snippets \cup {"", "hot"}

\* --------------------------------------- ai_engine.py: generate_cold_email
\* A text is a sequence of tokens. SUBJ is the marker "subject": " and BODY the
\* marker "body": " (both begin and end with a double quote), Q is a double
\* quote, NLESC the two characters backslash-n, NL a newline, LINK the
\* scheduling link, w any other run of characters without a quote.
SUBJ == "SUBJ"
BODY == "BODY"
TextTokens == {"w", CALENDLY_LINK, "NLESC", "Q", SUBJ, BODY}
QuoteTokens == {"Q", SUBJ, BODY}

RECURSIVE TextsUpTo(_)
TextsUpTo(n) ==
    IF n = 0 THEN {<<>>}
    ELSE LET shorter == TextsUpTo(n - 1)
         IN  shorter \cup {Append(x, tok) : x \in shorter, tok \in TextTokens}

\* The values of the "subject" and "body" members of a JSON object.
MemberValues ==
    {PyStr(<<"w">>), PyStr(<<"w", CALENDLY_LINK, "w">>), PyStr(<<>>), PyNone, PyInt,
     PyList(<<>>), PyList(<<PyStr(<<CALENDLY_LINK>>)>>), [t |-> "dict", keys |-> {}]}

\* A JSON object with any of the two members.
JsonObjects ==
    {[t |-> "dict", keys |-> ks, subject |-> sv, body |-> bv] :
        ks \in SUBSET {"subject", "body"}, sv \in MemberValues, bv \in MemberValues}

\* What gemini.generate_content(prompt) can give generate_cold_email: the
\* AttributeError of the shipped GeminiAPI, another exception, None, a JSON
\* document (an object, or another JSON value), or text that is no JSON document.
EmailAnswers ==
    {Raise("AttributeError"), Raise("RuntimeError"), Ok(PyNone)}
    \cup {Ok([t |-> "json", v |-> v]) : v \in JsonObjects \cup {PyNone, PyInt, PyList(<<>>)}}
    \cup {Ok([t |-> "text", s |-> x]) : x \in TextsUpTo(MaxToks)}

\* A text that is a JSON string literal: a quote, no inner quote, a quote.
IsJsonStringLiteral(x) ==
    /\ Len(x) >= 2
    /\ x[1] = "Q" /\ x[Len(x)] = "Q"
    /\ \A i \in 2..(Len(x) - 1) : x[i] \notin QuoteTokens

\* json.loads(ai_response_text)
JsonLoads(resp) ==
    IF resp.t = "None" THEN Raise("TypeError")
    ELSE IF resp.t = "json" THEN Ok(resp.v)
    ELSE IF IsJsonStringLiteral(resp.s)
         THEN Ok(PyStr([i \in 1..(Len(resp.s) - 2) |->
                            IF resp.s[i + 1] = "NLESC" THEN "NL" ELSE resp.s[i + 1]]))
    ELSE Raise("JSONDecodeError")

\* email_parts.get(key, default)
PartsGet(parts, key, default) ==
    IF parts.t # "dict" THEN Raise("AttributeError")
    ELSE IF key \in parts.keys THEN Ok(parts[key])
    ELSE Ok(default)

FirstIndex(x, toks) == CHOOSE i \in DOMAIN x : x[i] \in toks /\ \A j \in 1..(i - 1) : x[j] \notin toks

\* text.split(marker)[1].split('"')[0]: what follows the first marker, up to the
\* next double quote (a later marker begins with one).
AfterMarker(x, marker) ==
    IF marker \notin Range(x) THEN Raise("IndexError")
    ELSE LET rest == SubSeq(x, FirstIndex(x, {marker}) + 1, Len(x))
         IN  IF \E i \in DOMAIN rest : rest[i] \in QuoteTokens
             THEN Ok(SubSeq(rest, 1, FirstIndex(rest, QuoteTokens) - 1))
             ELSE Ok(rest)

\* str.replace('\\n', '\n')
ReplaceEscapedNewlines(x) == [i \in DOMAIN x |-> IF x[i] = "NLESC" THEN "NL" ELSE x[i]]

\* The manual parse of the `except json.JSONDecodeError` branch.
ManualParse(x) ==
    LET sj == AfterMarker(x, SUBJ)
        bd == AfterMarker(x, BODY)
    IN  IF sj.exc # "none" THEN Raise(sj.exc)
        ELSE IF bd.exc # "none" THEN Raise(bd.exc)
        ELSE Ok([subject |-> PyStr(sj.val), body |-> PyStr(ReplaceEscapedNewlines(bd.val))])

\* The inner try of generate_cold_email: subject and body from the answer.
ParseEmail(resp) ==
    LET parts == JsonLoads(resp)
    IN  IF parts.exc = "none"
        THEN LET sj == PartsGet(parts.val, "subject", PyStr(<<"Default Subject">>))
                 bd == PartsGet(parts.val, "body", PyStr(<<"Default Body">>))
             IN  IF sj.exc # "none" THEN Raise(sj.exc)
                 ELSE Ok([subject |-> sj.val, body |-> bd.val])
        ELSE IF ExceptJSONDecodeError(parts.exc) THEN ManualParse(resp.s)
        ELSE Raise(parts.exc)

\* `CALENDLY_LINK in body`: a substring of a str, an element of a list, a key of
\* a dict; a TypeError on None and on an int.
LinkIn(body) ==
    CASE body.t = "str" -> Ok(CALENDLY_LINK \in Range(body.s))
      [] body.t = "list" -> Ok(PyStr(<<CALENDLY_LINK>>) \in Range(body.items))
      [] body.t = "dict" -> Ok(CALENDLY_LINK \in body.keys)
      [] OTHER -> Raise("TypeError")

\* The sentence appended to a body without the link.
CallToAction == <<"NL", "NL", "w", CALENDLY_LINK>>

\* body += f"...{CALENDLY_LINK}": a str is concatenated, a list is extended by
\* the characters of the sentence one by one, anything else is a TypeError.
PlusEquals(body) ==
    CASE body.t = "str" -> Ok(PyStr(body.s \o CallToAction))
      [] body.t = "list" -> Ok(PyList(body.items \o <<PyStr(<<"NL">>), PyStr(<<"char">>)>>))
      [] OTHER -> Raise("TypeError")

\* `if CALENDLY_LINK not in body: body += ...`
EnsureLink(body) ==
    LET has == LinkIn(body)
    IN  IF has.exc # "none" THEN Raise(has.exc)
        ELSE IF has.val THEN Ok(body)
        ELSE PlusEquals(body)

\* The hard-coded email of the except branch.
TemplateEmail ==
    [subject |-> PyStr(<<"w">>), body |-> PyStr(<<"w", "NL", "NL", "w", CALENDLY_LINK, "NL", "NL", "w">>)]

\* The try body of generate_cold_email.
GenerateTry(answer) ==
    IF answer.exc # "none" THEN Raise(answer.exc)
    ELSE LET parsed == ParseEmail(answer.val)
         IN  IF parsed.exc # "none" THEN Raise(parsed.exc)
             ELSE LET body == EnsureLink(parsed.val.body)
                  IN  IF body.exc # "none" THEN Raise(body.exc)
                      ELSE Ok([subject |-> parsed.val.subject, body |-> body.val])

\* generate_cold_email(lead, prompt), given the generator's answer.
generate_cold_email(answer) ==
    LET r == GenerateTry(answer)
    IN  IF r.exc = "none" THEN r
        ELSE IF ExceptException(r.exc) THEN Ok(TemplateEmail)
        ELSE Raise(r.exc)

\* The path an answer takes through generate_cold_email.
GenerationPath(answer) ==
    IF GenerateTry(answer).exc # "none" THEN "template"
    ELSE IF JsonLoads(answer.val).exc = "none" THEN "json"
    ELSE "manual"

\* ------------------------------------------------------------------ state
VARIABLES
    store,      \* Firestore collection "leads": document id -> fields
    db,         \* database.db: "client", or "None" when initialisation failed
    now,        \* the clock time.time() reads
    service,    \* GmailAPI.service of the session: "built" or "None"
    threads,    \* the number of threads the mailbox has opened for sent mail
    batch,      \* the thread of run_campaign_send: its position and locals
    followup,   \* the call of send_follow_up: its position and locals
    aiCall,     \* the last call into ai_engine: function, answer, outcome
    inbox,      \* the mailbox: message id -> thread, snippet, subject kind, unread
    monitor     \* the ResponseMonitor instances: position, stop flag, locals

vars == <<store, db, now, service, threads, batch, followup, aiCall, inbox, monitor>>

LeadIds == {1, 2}
CampaignIds == {"C1"}
\* thread_id of a lead no message was sent to (None)
NoThread == 0
\* campaign_id given to every imported lead (app.py)
TempCampaign == "temp_campaign_123"

\* ------------------------------------------------------------ database.py
\* A document as save_lead writes it: the fields of the Lead model the model
\* tracks. idField says whether the document carries a field "id" (holding its
\* document id): Lead has no such field, so save_lead writes none.
NewLeadDoc(campaign) ==
    [idField |-> FALSE, status |-> "imported", score |-> "Warm", thread_id |-> NoThread,
     campaign_id |-> campaign, sent_count |-> 0, last_activity |-> 0]

\* The values app.py and other callers hand to save_lead as lead_data["email"]:
\* texts with and without "@" and ".", and None.
EmailValues ==
    {PyStr(<<"a", "@", "b", ".", "c">>), PyStr(<<".", "@">>), PyStr(<<"a", ".", "b", "@", "c">>),
     PyStr(<<"a", "@", "b">>),
     PyStr(<<"a", ".", "b">>), PyStr(<<"a", "b">>), PyStr(<<>>), PyNone}

\* lead_data: the email, and whether a name is given (a required field).
LeadData == [email : EmailValues, named : BOOLEAN]

validate_email_at_only(v) ==
    IF "@" \notin Range(v) THEN Raise("ValueError") ELSE Ok(v)

\* Lead.validate_email(cls, v)
validate_email(v) ==
    IF "@" \notin Range(v) \/ "." \notin Range(v) THEN Raise("ValueError") ELSE Ok(v)

\* Lead(**lead_data): the fields are typed (email and name are str, name is
\* required), the validator runs on the email, and any failure is raised as a
\* ValidationError; else the model with its defaults and the last_activity of
\* the row (app.py: time.time()).
LeadModel(lead_data) ==
    IF lead_data.email.t # "str" \/ ~lead_data.named THEN Raise("ValidationError")
    ELSE IF validate_email(lead_data.email.s).exc # "none" THEN Raise("ValidationError")
    ELSE Ok([f \in DOMAIN NewLeadDoc(TempCampaign) \cup {"email"} |->
                IF f = "email" THEN lead_data.email
                ELSE IF f = "last_activity" THEN now
                ELSE NewLeadDoc(TempCampaign)[f]])

\* save_lead(lead_data): the model is built, then the document is written under
\* a new id, which is returned; only ConnectionError is caught (answer "").
save_lead(st, lead_data, fault) ==
    LET lead == LeadModel(lead_data)
    IN  IF lead.exc # "none" THEN [exc |-> lead.exc, val |-> PyNone, store |-> st]
        ELSE IF db = "None" THEN [exc |-> "none", val |-> PyStr(<<>>), store |-> st]
        ELSE IF fault # "none"
             THEN (IF ExceptConnectionError(fault)
                   THEN [exc |-> "none", val |-> PyStr(<<>>), store |-> st]
                   ELSE [exc |-> fault, val |-> PyNone, store |-> st])
        ELSE [exc |-> "none", val |-> Len(st) + 1, store |-> Append(st, lead.val)]

\* DocumentSnapshot.to_dict(): the fields of the document and nothing else; the
\* key "id" is there only when the document has such a field.
ToDict(st, l) ==
    [doc |-> l, id |-> IF st[l].idField THEN l ELSE 0,
     sent_count |-> st[l].sent_count]

\* `key in lead`
HasKey(lead, key) == IF key = "id" THEN lead.id # 0 ELSE TRUE

\* lead[key]
GetItem(lead, key) == IF HasKey(lead, key) THEN Ok(lead[key]) ELSE Raise("KeyError")

\* The documents of a set in document order, as a query streams them.
RECURSIVE InOrder(_)
InOrder(S) ==
    IF S = {} THEN <<>>
    ELSE LET m == CHOOSE x \in S : \A y \in S : x <= y
         IN  <<m>> \o InOrder(S \ {m})

\* get_leads_for_campaign(campaign_id): db.collection fails on db = None and the
\* except clause answers [].
get_leads_for_campaign(st, campaign_id) ==
    IF db = "None" THEN <<>>
    ELSE LET ids == InOrder({l \in DOMAIN st : st[l].campaign_id = campaign_id})
         IN  [k \in DOMAIN ids |-> ToDict(st, ids[k])]

MergeKeepingScore(doc, updates) ==
    [f \in DOMAIN doc |-> IF f \in DOMAIN updates \ {"score"} THEN updates[f] ELSE doc[f]]

MergeOnce(doc, updates) ==
    [f \in DOMAIN doc |->
        IF f \notin DOMAIN updates THEN doc[f]
        ELSE IF f = "status" /\ doc.status \notin {"imported", "sent"} THEN "replied"
        ELSE updates[f]]

\* document(lead_id).update(updates): the fields named are overwritten.
Merge(doc, updates) ==
    [f \in DOMAIN doc |-> IF f \in DOMAIN updates THEN updates[f] ELSE doc[f]]

\* What get_collection_ref(...).document(id).update(...) does: ConnectionError
\* when db is None, the error the Firestore call ends with, or the write.
FirestoreUpdate(st, lead_id, updates, fault) ==
    IF db = "None" THEN [exc |-> "ConnectionError", store |-> st, written |-> FALSE]
    ELSE IF fault # "none" THEN [exc |-> fault, store |-> st, written |-> FALSE]
    ELSE [exc |-> "none", written |-> TRUE,
          store |-> [st EXCEPT ![lead_id] = Merge(st[lead_id], updates)]]

update_lead_swallowing(st, lead_id, updates, fault) ==
    LET r == FirestoreUpdate(st, lead_id, updates, fault)
    IN  IF r.exc # "none" /\ ExceptException(r.exc)
        THEN [exc |-> "none", store |-> st, written |-> FALSE]
        ELSE r

\* update_lead(lead_id, updates)
update_lead(st, lead_id, updates, fault) ==
    LET r == FirestoreUpdate(st, lead_id, updates, fault)
    IN  IF r.exc # "none" /\ ExceptConnectionError(r.exc)
        THEN [exc |-> "none", store |-> st, written |-> FALSE]
        ELSE r

\* The errors a Firestore call can end with.
StoreFaults == {"none", "HttpError"}

\* ---------------------------------------------- integrations.py: GmailAPI
\* send_email(recipient, subject, body): None without a service, else the
\* threadId of the message sent (the mailbox opens a thread for it), or the
\* exception of the transport, re-raised.
SendOutcomes ==
    IF service = "None" THEN {Ok(NoThread)}
    ELSE {Ok(threads + 1), Raise("HttpError")}

TruthyAlways(thread_id) == TRUE

\* `if thread_id:`
Truthy(thread_id) == thread_id # NoThread

\* The threads of the mailbox after a send with outcome out.
ThreadsAfter(out) == IF out.exc = "none" /\ Truthy(out.val) THEN threads + 1 ELSE threads

\* ------------------------------------------ automation.py: SequenceManager
Batches == {"B1", "B2"}

IdleBatch ==
    [pc |-> "idle", campaign |-> "None", leads |-> <<>>, i |-> 0, thread_id |-> NoThread,
     attempts |-> <<>>, result |-> <<>>, wrote |-> <<>>, sleeps |-> <<>>]

RunCampaignLastFirst(b, c) ==
    LET leads == get_leads_for_campaign(store, c)
    IN  /\ batch[b].pc = "idle"
        /\ leads # <<>>
        /\ batch' = [batch EXCEPT ![b] =
                [pc |-> "send", campaign |-> c, leads |-> leads, i |-> Len(leads),
                 thread_id |-> NoThread,
                 attempts |-> [k \in DOMAIN leads |-> 0],
                 result |-> [k \in DOMAIN leads |-> "pending"],
                 wrote |-> [k \in DOMAIN leads |-> FALSE],
                 sleeps |-> [k \in DOMAIN leads |-> 0]]]
        /\ UNCHANGED <<store, db, now, service, threads, followup, aiCall, inbox, monitor>>

\* app.py, "Run Campaign": the leads of the campaign are fetched and, when there
\* are any, run_campaign_send(campaign, leads) starts on a thread of its own.
RunCampaign(b, c) ==
    LET leads == get_leads_for_campaign(store, c)
    IN  /\ batch[b].pc = "idle"
        /\ leads # <<>>
        /\ batch' = [batch EXCEPT ![b] =
                [pc |-> "send", campaign |-> c, leads |-> leads, i |-> 1,
                 thread_id |-> NoThread,
                 attempts |-> [k \in DOMAIN leads |-> 0],
                 result |-> [k \in DOMAIN leads |-> "pending"],
                 wrote |-> [k \in DOMAIN leads |-> FALSE],
                 sleeps |-> [k \in DOMAIN leads |-> 0]]]
        /\ UNCHANGED <<store, db, now, service, threads, followup, aiCall, inbox, monitor>>

AfterRaiseLeavesLoop(e) == IF ExceptException(e) THEN "returned" ELSE "raised"

AfterRaiseNoDelay(e) == IF ExceptException(e) THEN "send" ELSE "raised"

\* Where run_campaign_send goes when the try body of lead i raises e: to the
\* handler and on to the delay when `except Exception` catches e, else out of
\* the method.
AfterRaise(e) == IF ExceptException(e) THEN "sleep" ELSE "raised"

\* run_campaign_send, lines 34-42: the message is built and sent.
BatchSend(b) ==
    /\ batch[b].pc = "send"
    /\ \E out \in SendOutcomes :
         LET i == batch[b].i
             sent == [batch[b] EXCEPT !.attempts[i] = @ + 1]
         IN  /\ batch' = [batch EXCEPT ![b] =
                    IF out.exc # "none"
                    THEN [sent EXCEPT !.pc = AfterRaise(out.exc), !.result[i] = "raise"]
                    ELSE IF Truthy(out.val)
                    THEN [sent EXCEPT !.pc = "update", !.result[i] = "ok",
                                      !.thread_id = out.val]
                    ELSE [sent EXCEPT !.pc = "sleep", !.result[i] = "empty",
                                      !.thread_id = out.val]]
             /\ threads' = ThreadsAfter(out)
    /\ UNCHANGED <<store, db, now, service, followup, aiCall, inbox, monitor>>

\* The updates of a successful first send.
SentUpdates(lead, thread_id, campaign) ==
    [status |-> "sent", thread_id |-> thread_id, last_activity |-> now,
     campaign_id |-> campaign, sent_count |-> lead.sent_count + 1]

\* run_campaign_send, lines 43-53: the lead is updated after a successful send.
BatchUpdate(b) ==
    /\ batch[b].pc = "update"
    /\ LET i == batch[b].i
           lead == batch[b].leads[i]
           id == GetItem(lead, "id")
       IN  IF id.exc # "none"
           THEN /\ batch' = [batch EXCEPT ![b].pc = AfterRaise(id.exc)]
                /\ UNCHANGED store
           ELSE \E fault \in StoreFaults :
                  LET r == update_lead(store, id.val,
                                       SentUpdates(lead, batch[b].thread_id, batch[b].campaign),
                                       fault)
                  IN  /\ store' = r.store
                      /\ batch' = [batch EXCEPT
                            ![b].pc = IF r.exc # "none" THEN AfterRaise(r.exc) ELSE "sleep",
                            ![b].wrote[i] = r.written]
    /\ UNCHANGED <<db, now, service, threads, followup, aiCall, inbox, monitor>>

\* run_campaign_send, lines 57-59: the delay, then the next lead or the return.
BatchSleep(b) ==
    /\ batch[b].pc = "sleep"
    /\ LET i == batch[b].i
       IN  batch' = [batch EXCEPT
              ![b].sleeps[i] = @ + 1,
              ![b].i = IF i < Len(batch[b].leads) THEN i + 1 ELSE i,
              ![b].pc = IF i < Len(batch[b].leads) THEN "send" ELSE "returned"]
    /\ UNCHANGED <<store, db, now, service, threads, followup, aiCall, inbox, monitor>>

IdleFollowUp == [pc |-> "idle", lead |-> ToDict([l \in {1} |-> NewLeadDoc("None")], 1),
                 thread_id |-> NoThread, result |-> "pending", wrote |-> FALSE]

\* send_follow_up(lead, step) is called with a lead read from the store.
StartFollowUp(l) ==
    /\ followup.pc = "idle"
    /\ db # "None"
    /\ l \in DOMAIN store
    /\ followup' = [IdleFollowUp EXCEPT !.pc = "send", !.lead = ToDict(store, l)]
    /\ UNCHANGED <<store, db, now, service, threads, batch, aiCall, inbox, monitor>>

\* Where send_follow_up goes when its try body raises e.
FollowUpAfterRaise(e) == IF ExceptException(e) THEN "returned" ELSE "raised"

\* send_follow_up, lines 68-76: the follow-up is built and sent.
FollowUpSend ==
    /\ followup.pc = "send"
    /\ \E out \in SendOutcomes :
         /\ followup' =
              IF out.exc # "none"
              THEN [followup EXCEPT !.pc = FollowUpAfterRaise(out.exc), !.result = "raise"]
              ELSE IF Truthy(out.val)
              THEN [followup EXCEPT !.pc = "update", !.result = "ok", !.thread_id = out.val]
              ELSE [followup EXCEPT !.pc = "returned", !.result = "empty",
                                    !.thread_id = out.val]
         /\ threads' = ThreadsAfter(out)
    /\ UNCHANGED <<store, db, now, service, batch, aiCall, inbox, monitor>>

FollowUpUpdatesWithStatus(lead) ==
    [status |-> "sent", last_activity |-> now, sent_count |-> lead.sent_count + 1]

\* The updates of a successful follow-up.
FollowUpUpdates(lead) ==
    [last_activity |-> now, sent_count |-> lead.sent_count + 1]

\* send_follow_up, lines 77-84: the lead is updated after a successful send.
FollowUpUpdate ==
    /\ followup.pc = "update"
    /\ LET id == GetItem(followup.lead, "id")
       IN  IF id.exc # "none"
           THEN /\ followup' = [followup EXCEPT !.pc = FollowUpAfterRaise(id.exc)]
                /\ UNCHANGED store
           ELSE \E fault \in StoreFaults :
                  LET r == update_lead(store, id.val, FollowUpUpdates(followup.lead), fault)
                  IN  /\ store' = r.store
                      /\ followup' = [followup EXCEPT
                            !.pc = IF r.exc # "none" THEN FollowUpAfterRaise(r.exc)
                                   ELSE "returned",
                            !.wrote = r.written]
    /\ UNCHANGED <<db, now, service, threads, batch, aiCall, inbox, monitor>>

\* Time passes.
Tick ==
    /\ now < MaxTime
    /\ now' = now + 1
    /\ UNCHANGED <<store, db, service, threads, batch, followup, aiCall, inbox, monitor>>

\* get_replies(): [] without a service or when the listing fails; else the
\* unread messages whose subject begins with "re:", in the provider's order.
ReplyCandidatesAnyLabel == {m \in DOMAIN inbox : inbox[m].reply}

ReplyCandidates == {m \in DOMAIN inbox : inbox[m].unread /\ inbox[m].reply}

Orderings(S) ==
    {q \in [1..Cardinality(S) -> S] : \A a, b \in DOMAIN q : a # b => q[a] # q[b]}

get_replies ==
    IF service = "None" THEN {<<>>}
    ELSE {<<>>} \cup Orderings(ReplyCandidates)

\* mark_as_read(message_id): the UNREAD label is removed, or the call fails and
\* the failure is logged; nothing is raised either way.
mark_as_read(box, message_id, fails) ==
    IF service = "None" \/ fails THEN box
    ELSE [box EXCEPT ![message_id].unread = FALSE]

get_lead_or_raise(st, thread_id, fault) ==
    IF db = "None" THEN Ok(0)
    ELSE IF fault # "none"
         THEN (IF ExceptConnectionError(fault) THEN Ok(0) ELSE Raise(fault))
    ELSE LET ids == {l \in DOMAIN st : st[l].thread_id = thread_id}
         IN  IF ids = {} THEN Raise("IndexError") ELSE Ok(InOrder(ids)[1])

get_lead_any_thread(st, thread_id, fault) ==
    IF db = "None" THEN Ok(0)
    ELSE IF fault # "none"
         THEN (IF ExceptConnectionError(fault) THEN Ok(0) ELSE Raise(fault))
    ELSE LET ids == {l \in DOMAIN st : st[l].thread_id = thread_id}
         IN  IF ids = {} THEN Ok(InOrder(DOMAIN st)[1]) ELSE Ok(InOrder(ids)[1])

\* get_lead_by_thread_id(thread_id): the first document with that thread id as a
\* dict, None (lead 0) when there is none or db is None; a Firestore error is
\* not caught here.
get_lead_by_thread_id(st, thread_id, fault) ==
    IF db = "None" THEN Ok(0)
    ELSE IF fault # "none"
         THEN (IF ExceptConnectionError(fault) THEN Ok(0) ELSE Raise(fault))
    ELSE LET ids == {l \in DOMAIN st : st[l].thread_id = thread_id}
         IN  IF ids = {} THEN Ok(0) ELSE Ok(InOrder(ids)[1])

\* ------------------------------------------ automation.py: ResponseMonitor
\* "bg" is the session's monitor, started as a thread; "manual" is the monitor
\* "Run Response Monitor Once" constructs and runs on the caller's thread.
Monitors == {"bg", "manual"}

NoLead == [doc |-> 0, id |-> 0, sent_count |-> 0]

\* No update written yet by a monitor.
NoWrite ==
    [msg |-> 0, classification |-> "None", status |-> "None", score |-> "None", n |-> 0]

NewMonitor ==
    [pc |-> "new", stop |-> FALSE, cycles |-> 0, replies |-> <<>>, k |-> 0,
     lead |-> NoLead, classification |-> "None", score |-> "None", open |-> 0,
     stopAt |-> "never", last |-> NoWrite, fault |-> "none", refused |-> FALSE,
     stopBegun |-> 0]

FlagChecksInsideCycle == {"while", "mark"}

FlagChecksNever == {}

\* The positions of run at which _stop_event.is_set() is evaluated.
FlagChecks == {"while"}

\* Thread.is_alive(): start() was called and run has not ended.
Alive(m) == monitor[m].pc \notin {"new", "stopped", "raised"}

ThreadStartAgain(mon) == [mon EXCEPT !.pc = "while"]

\* Thread.start(): run begins on a thread of its own the first time; a thread
\* is started at most once, and a later start() is refused with RuntimeError.
ThreadStart(mon) ==
    IF mon.pc = "new" THEN [mon EXCEPT !.pc = "while"] ELSE [mon EXCEPT !.refused = TRUE]

\* app.py start_monitor: the session's monitor is started when it is not alive.
StartMonitor ==
    /\ ~Alive("bg")
    /\ ~monitor["bg"].refused
    /\ monitor' = [monitor EXCEPT !["bg"] = ThreadStart(@)]
    /\ UNCHANGED <<store, db, now, service, threads, batch, followup, aiCall, inbox>>

\* app.py "Run Response Monitor Once": monitor = ResponseMonitor(creds);
\* monitor.run()
RunMonitorOnce ==
    /\ monitor["manual"].pc = "new"
    /\ monitor' = [monitor EXCEPT !["manual"].pc = "while"]
    /\ UNCHANGED <<store, db, now, service, threads, batch, followup, aiCall, inbox>>

\* Where run is: inside a poll cycle, in its sleep, or at its flag check.
Phase(pc) ==
    IF pc \in {"fetch", "lookup", "update", "mark"} THEN "cycle" ELSE pc

\* The poll cycles run has begun: those whose flag check passed, less the one
\* whose check_replies has not made its first call (get_replies) yet.
Begun(mon) == IF mon.pc = "fetch" THEN mon.cycles - 1 ELSE mon.cycles

\* app.py stop_monitor: monitor.stop() on the live session monitor sets the event.
StopMonitor ==
    /\ Alive("bg")
    /\ ~monitor["bg"].stop
    /\ monitor' = [monitor EXCEPT !["bg"].stop = TRUE, !["bg"].stopAt = Phase(monitor["bg"].pc),
                                  !["bg"].stopBegun = Begun(monitor["bg"])]
    /\ UNCHANGED <<store, db, now, service, threads, batch, followup, aiCall, inbox>>

\* run, line 103, flag set: the loop ends and run returns.
MonitorExit(m) ==
    /\ monitor[m].pc \in FlagChecks
    /\ monitor[m].stop
    /\ monitor' = [monitor EXCEPT ![m].pc = "stopped"]
    /\ UNCHANGED <<store, db, now, service, threads, batch, followup, aiCall, inbox>>

MonitorLoopUnchecked(m) ==
    /\ monitor[m].pc = "while"
    /\ monitor[m].cycles < MaxCycles
    /\ monitor' = [monitor EXCEPT ![m].pc = "fetch", ![m].cycles = @ + 1]
    /\ UNCHANGED <<store, db, now, service, threads, batch, followup, aiCall, inbox>>

\* run, lines 103-104, flag clear: check_replies is called.
MonitorLoop(m) ==
    /\ monitor[m].pc = "while"
    /\ ~monitor[m].stop
    /\ monitor[m].cycles < MaxCycles
    /\ monitor' = [monitor EXCEPT ![m].pc = "fetch", ![m].cycles = @ + 1]
    /\ UNCHANGED <<store, db, now, service, threads, batch, followup, aiCall, inbox>>

MonitorAfterRaiseUncaught(e) == "raised"

\* Where check_replies goes when its try body raises e: `except Exception` ends
\* the cycle and run goes on to its sleep; anything else leaves run.
MonitorAfterRaise(e) == IF ExceptException(e) THEN "sleep" ELSE "raised"

NextReplyEndsCycle(mon) == [mon EXCEPT !.pc = "sleep"]

NextReplySkipsOne(mon) ==
    IF mon.k + 1 < Len(mon.replies)
    THEN [mon EXCEPT !.pc = "lookup", !.k = @ + 2, !.lead = NoLead,
                     !.classification = "None", !.score = "None"]
    ELSE [mon EXCEPT !.pc = "sleep"]

\* The position after reply k: the next reply, or the end of the cycle.
NextReply(mon) ==
    IF mon.k < Len(mon.replies)
    THEN [mon EXCEPT !.pc = "lookup", !.k = @ + 1, !.lead = NoLead,
                     !.classification = "None", !.score = "None"]
    ELSE [mon EXCEPT !.pc = "sleep"]

\* check_replies, lines 112-115: the candidates are fetched.
MonitorFetch(m) ==
    /\ monitor[m].pc = "fetch"
    /\ \E replies \in get_replies :
         monitor' = [monitor EXCEPT ![m] =
            NextReply([monitor[m] EXCEPT !.replies = replies, !.k = 0])]
    /\ UNCHANGED <<store, db, now, service, threads, batch, followup, aiCall, inbox>>

\* check_replies, lines 123-124, for a reply whose lead was found: the
\* classification and the score of the reply.
Classified(mon, snippet, answer) ==
    LET c == classify_response(answer)
    IN  IF c.exc # "none" THEN [mon EXCEPT !.pc = MonitorAfterRaise(c.exc)]
        ELSE [mon EXCEPT !.pc = "update", !.classification = c.val,
                         !.score = score_lead(snippet)]

\* check_replies, lines 118-124: the lead of the reply's thread is looked up
\* and, when there is one, the reply is classified and scored.
MonitorLookup(m) ==
    /\ monitor[m].pc = "lookup"
    /\ \E fault \in StoreFaults, answer \in ClassifyAnswers :
         LET mon == monitor[m]
             reply == inbox[mon.replies[mon.k]]
             r == get_lead_by_thread_id(store, reply.threadId, fault)
             looked == [mon EXCEPT !.fault = fault]
         IN  monitor' = [monitor EXCEPT ![m] =
                IF r.exc # "none" THEN [looked EXCEPT !.pc = MonitorAfterRaise(r.exc)]
                ELSE IF r.val = 0 THEN NextReply(looked)
                ELSE Classified([looked EXCEPT !.lead = ToDict(store, r.val)],
                                reply.snippet, answer)]
    /\ UNCHANGED <<store, db, now, service, threads, batch, followup, aiCall, inbox>>

ReplyUpdatesWithThread(classification, score) ==
    [status |-> StatusMapGet(classification, "replied"), last_activity |-> now,
     score |-> score, thread_id |-> NoThread]

\* The updates check_replies writes for a reply.
ReplyUpdates(classification, score) ==
    [status |-> StatusMapGet(classification, "replied"), last_activity |-> now,
     score |-> score]

\* check_replies, lines 127-135: the lead's status and score are written.
MonitorUpdate(m) ==
    /\ monitor[m].pc = "update"
    /\ LET mon == monitor[m]
           id == GetItem(mon.lead, "id")
       IN  IF id.exc # "none"
           THEN /\ monitor' = [monitor EXCEPT ![m].pc = MonitorAfterRaise(id.exc)]
                /\ UNCHANGED store
           ELSE \E fault \in StoreFaults :
                  LET r == update_lead(store, id.val,
                                       ReplyUpdates(mon.classification, mon.score), fault)
                  IN  /\ store' = r.store
                      /\ monitor' = [monitor EXCEPT ![m] =
                            IF r.exc # "none"
                            THEN [mon EXCEPT !.pc = MonitorAfterRaise(r.exc)]
                            ELSE [mon EXCEPT !.pc = "mark",
                                             !.open = IF r.written THEN mon.replies[mon.k]
                                                      ELSE 0,
                                             !.last = IF r.written
                                                      THEN [msg |-> mon.replies[mon.k],
                                                            classification |-> mon.classification,
                                                            status |-> r.store[id.val].status,
                                                            score |-> r.store[id.val].score,
                                                            n |-> IF mon.last.msg = mon.replies[mon.k]
                                                                  THEN mon.last.n + 1 ELSE 1]
                                                      ELSE @]]
    /\ UNCHANGED <<db, now, service, threads, batch, followup, aiCall, inbox>>

\* check_replies, lines 136-137: the message is marked read; on to the next reply.
MonitorMark(m) ==
    /\ monitor[m].pc = "mark"
    /\ \E fails \in BOOLEAN :
         inbox' = mark_as_read(inbox, monitor[m].replies[monitor[m].k], fails)
    /\ monitor' = [monitor EXCEPT ![m] = NextReply([monitor[m] EXCEPT !.open = 0])]
    /\ UNCHANGED <<store, db, now, service, threads, batch, followup, aiCall>>

\* run, line 105: time.sleep(self.interval), then back to the flag.
MonitorSleep(m) ==
    /\ monitor[m].pc = "sleep"
    /\ monitor' = [monitor EXCEPT ![m].pc = "while"]
    /\ UNCHANGED <<store, db, now, service, threads, batch, followup, aiCall, inbox>>

\* --------------------------------------------------- calls into ai_engine
NoCall == [fn |-> "none", answer |-> Ok(PyNone), res |-> Ok(PyNone)]

CallClassify ==
    /\ \E answer \in ClassifyAnswers :
         aiCall' = [fn |-> "classify_response", answer |-> answer,
                    res |-> classify_response(answer)]
    /\ UNCHANGED <<store, db, now, service, threads, batch, followup, inbox, monitor>>

CallScore ==
    /\ \E token \in ScoreInputs :
         aiCall' = [fn |-> "score_lead", answer |-> token, res |-> Ok(score_lead(token))]
    /\ UNCHANGED <<store, db, now, service, threads, batch, followup, inbox, monitor>>

CallGenerate ==
    /\ \E answer \in EmailAnswers :
         aiCall' = [fn |-> "generate_cold_email", answer |-> answer,
                    res |-> generate_cold_email(answer)]
    /\ UNCHANGED <<store, db, now, service, threads, batch, followup, inbox, monitor>>

\* ------------------------------------------------------------- the import
\* app.py, import of a sheet: save_lead is called for a row.
SaveLead ==
    /\ Len(store) < Cardinality(LeadIds)
    /\ \E lead_data \in LeadData, fault \in StoreFaults :
         LET r == save_lead(store, lead_data, fault)
         IN  /\ store' = r.store
             /\ aiCall' = [fn |-> "save_lead", answer |-> lead_data,
                           res |-> [exc |-> r.exc, val |-> r.val]]
    /\ UNCHANGED <<db, now, service, threads, batch, followup, inbox, monitor>>

\* ------------------------------------------------------------ the mailbox
MsgIds == {1, 2}
\* The threads a message can belong to: those of the leads, and one of no lead.
ThreadIds == {1, 2, 3}

\* The snippets of the replies the monitor is followed on.
ReplySnippets == {"interested", "Yes I'm very interested, let's talk"}

Messages ==
    [threadId : ThreadIds, snippet : ReplySnippets, reply : BOOLEAN, unread : {TRUE}]

\* A message arrives in the mailbox.
Arrive(msg) ==
    /\ Cardinality(DOMAIN inbox) < Cardinality(MsgIds)
    /\ inbox' = [m \in DOMAIN inbox \cup {Cardinality(DOMAIN inbox) + 1} |->
                    IF m \in DOMAIN inbox THEN inbox[m] ELSE msg]
    /\ UNCHANGED <<store, db, now, service, threads, batch, followup, aiCall, monitor>>

\* ---------------------------------------------------------- specifications
\* Documents before any send: written by save_lead (no "id" field), or
\* provisioned with one.
FreshDocs ==
    {[NewLeadDoc(c) EXCEPT !.idField = b] :
        c \in CampaignIds \cup {TempCampaign}, b \in BOOLEAN}

\* Document l after a first send, which opened thread l: only a document with
\* an "id" field gets there.
SentDoc(l) ==
    [NewLeadDoc("C1") EXCEPT !.idField = TRUE, !.status = "sent", !.thread_id = l,
                             !.sent_count = 1]

Quiet ==
    /\ now = 0
    /\ batch = [b \in Batches |-> IdleBatch]
    /\ followup = IdleFollowUp
    /\ aiCall = NoCall
    /\ monitor = [m \in Monitors |-> NewMonitor]

\* The whole system, from a store of fresh leads and an empty mailbox.
Init ==
    /\ store \in [LeadIds -> FreshDocs]
    /\ db \in {"client", "None"}
    /\ service \in {"built", "None"}
    /\ threads = 0
    /\ inbox = <<>>
    /\ Quiet

SequenceNext ==
    \/ \E b \in Batches, c \in CampaignIds : RunCampaign(b, c)
    \/ \E b \in Batches : BatchSend(b)
    \/ \E b \in Batches : BatchUpdate(b)
    \/ \E b \in Batches : BatchSleep(b)
    \/ \E l \in LeadIds : StartFollowUp(l)
    \/ FollowUpSend
    \/ FollowUpUpdate
    \/ Tick

\* The session's monitor: started, polling on its thread, stopped.
BackgroundNext ==
    \/ StartMonitor
    \/ StopMonitor
    \/ MonitorExit("bg")
    \/ MonitorLoop("bg")
    \/ MonitorFetch("bg")
    \/ MonitorLookup("bg")
    \/ MonitorUpdate("bg")
    \/ MonitorMark("bg")
    \/ MonitorSleep("bg")

\* The session's monitor while time passes.
TimedBackgroundNext ==
    \/ BackgroundNext
    \/ Tick

\* The session's monitor and the manually run one, side by side.
MonitorNext ==
    \/ StartMonitor
    \/ RunMonitorOnce
    \/ StopMonitor
    \/ \E m \in Monitors : MonitorExit(m)
    \/ \E m \in Monitors : MonitorLoop(m)
    \/ \E m \in Monitors : MonitorFetch(m)
    \/ \E m \in Monitors : MonitorLookup(m)
    \/ \E m \in Monitors : MonitorUpdate(m)
    \/ \E m \in Monitors : MonitorMark(m)
    \/ \E m \in Monitors : MonitorSleep(m)

EngineNext ==
    \/ CallClassify
    \/ CallScore
    \/ CallGenerate

Next ==
    \/ SequenceNext
    \/ MonitorNext
    \/ EngineNext
    \/ \E msg \in Messages : Arrive(msg)

Spec == Init /\ [][Next]_vars

\* The policy layer alone: every call of the three functions of ai_engine.
InitEngine ==
    /\ store = [l \in LeadIds |-> NewLeadDoc(TempCampaign)]
    /\ db = "client"
    /\ service = "built"
    /\ threads = 0
    /\ inbox = <<>>
    /\ Quiet

SpecEngine == InitEngine /\ [][EngineNext]_vars

\* The Sequence Controller alone.
SpecSequence == Init /\ [][SequenceNext]_vars

\* The Reply Monitor alone, on a store where sends have happened and a mailbox
\* that holds the replies.
InitMonitor ==
    /\ \E sent \in SUBSET LeadIds :
         /\ store = [l \in LeadIds |->
                        IF l \in sent THEN SentDoc(l) ELSE NewLeadDoc(TempCampaign)]
         /\ threads = Cardinality(LeadIds)
    /\ db \in {"client", "None"}
    /\ service \in {"built", "None"}
    /\ inbox \in [MsgIds -> Messages]
    /\ Quiet

SpecMonitor == InitMonitor /\ [][BackgroundNext]_vars

\* Both monitors, on a store where every lead was sent to and a mailbox of one
\* unread reply on the thread of the first lead.
InitPolling ==
    /\ store = [l \in LeadIds |-> SentDoc(l)]
    /\ threads = Cardinality(LeadIds)
    /\ db = "client"
    /\ service = "built"
    /\ inbox \in [{1} -> {msg \in Messages : msg.reply /\ msg.threadId = 1}]
    /\ Quiet

SpecPolling == InitPolling /\ [][MonitorNext]_vars

\* The session's monitor on a mailbox of one message, its thread scheduled
\* fairly: run is the body of a started thread, so each of its steps that is
\* enabled is eventually taken (every gateway and store call returns).
InitStopping ==
    /\ \E sent \in SUBSET LeadIds :
         /\ store = [l \in LeadIds |->
                        IF l \in sent THEN SentDoc(l) ELSE NewLeadDoc(TempCampaign)]
         /\ threads = Cardinality(LeadIds)
    /\ db \in {"client", "None"}
    /\ service \in {"built", "None"}
    /\ inbox \in [{1} -> Messages]
    /\ Quiet

ThreadFairness ==
    /\ WF_vars(MonitorExit("bg"))
    /\ WF_vars(MonitorLoop("bg"))
    /\ WF_vars(MonitorFetch("bg"))
    /\ WF_vars(MonitorLookup("bg"))
    /\ WF_vars(MonitorUpdate("bg"))
    /\ WF_vars(MonitorMark("bg"))
    /\ WF_vars(MonitorSleep("bg"))

SpecStopping == InitStopping /\ [][TimedBackgroundNext]_vars /\ ThreadFairness

\* The session's monitor polling a mailbox of one message again and again.
SpecReplay == InitStopping /\ [][TimedBackgroundNext]_vars

\* The session's monitor while every gateway and store call succeeds:
\* get_replies lists the candidates, the lookup and the update reach the
\* store, mark_as_read removes the label.
InitReliable ==
    /\ \E sent \in SUBSET LeadIds :
         /\ store = [l \in LeadIds |->
                        IF l \in sent THEN SentDoc(l) ELSE NewLeadDoc(TempCampaign)]
         /\ threads = Cardinality(LeadIds)
    /\ db = "client"
    /\ service = "built"
    /\ inbox \in [MsgIds -> Messages]
    /\ Quiet

CallsSucceed ==
    /\ (monitor["bg"].pc = "fetch" /\ monitor'["bg"].pc # "fetch") =>
          monitor'["bg"].replies \in Orderings(ReplyCandidates)
    /\ (monitor["bg"].pc = "lookup" /\ monitor'["bg"] # monitor["bg"]
                                   /\ monitor'["bg"].stop = monitor["bg"].stop) =>
          monitor'["bg"].fault = "none"
    /\ (monitor["bg"].pc = "update" /\ monitor'["bg"].pc # "update") =>
          monitor'["bg"].pc = "mark" /\ monitor'["bg"].open # 0
    /\ (monitor["bg"].pc = "mark" /\ monitor'["bg"].pc # "mark") =>
          ~inbox'[monitor["bg"].replies[monitor["bg"].k]].unread

ReliableNext == BackgroundNext /\ CallsSucceed

ReliableFairness ==
    /\ WF_vars(MonitorExit("bg") /\ CallsSucceed)
    /\ WF_vars(MonitorLoop("bg") /\ CallsSucceed)
    /\ WF_vars(MonitorFetch("bg") /\ CallsSucceed)
    /\ WF_vars(MonitorLookup("bg") /\ CallsSucceed)
    /\ WF_vars(MonitorUpdate("bg") /\ CallsSucceed)
    /\ WF_vars(MonitorMark("bg") /\ CallsSucceed)
    /\ WF_vars(MonitorSleep("bg") /\ CallsSucceed)

SpecReliable == InitReliable /\ [][ReliableNext]_vars /\ ReliableFairness

\* The import alone, into an empty collection.
InitImport ==
    /\ store = <<>>
    /\ db \in {"client", "None"}
    /\ service = "built"
    /\ threads = 0
    /\ inbox = <<>>
    /\ Quiet

ImportNext ==
    \/ SaveLead
    \/ Tick

SpecImport == InitImport /\ [][ImportNext]_vars

\* ------------------------------------------------------------- properties
Finished(b) == batch[b].pc \in {"returned", "raised"}

\* C1: in one pass of run_campaign_send every lead of the list gets exactly one
\* send attempt, whatever the earlier attempts ended with: the leads before the
\* current one have had one attempt, those after it none, no lead ever has two,
\* and when the pass is over every lead has had its one attempt.
C1_OneAttemptPerLead ==
    \A b \in Batches :
        \A k \in DOMAIN batch[b].leads :
            /\ batch[b].attempts[k] <= 1
            /\ k < batch[b].i => batch[b].attempts[k] = 1
            /\ k > batch[b].i => batch[b].attempts[k] = 0
            /\ Finished(b) => batch[b].attempts[k] = 1

C1_Witness ==
    \E b \in Batches :
        /\ batch[b].pc = "returned"
        /\ Len(batch[b].leads) = 2
        /\ batch[b].result[1] = "raise"
        /\ batch[b].attempts = <<1, 1>>

\* C2: when run_campaign_send returns, exactly the leads whose send returned a
\* non-empty thread id have had status=sent written to the store by the pass.
C2_SentExactlyWhenSendSucceeded ==
    \A b \in Batches :
        batch[b].pc = "returned" =>
            \A k \in DOMAIN batch[b].leads :
                batch[b].wrote[k] <=> batch[b].result[k] = "ok"

\* C3: run_campaign_send and send_follow_up never raise to their caller,
\* whatever the sends and the store do.
C3_ControllerNeverRaises ==
    /\ \A b \in Batches : batch[b].pc # "raised"
    /\ followup.pc # "raised"

C3_Witness ==
    /\ \E b \in Batches : batch[b].pc = "returned" /\ "raise" \in Range(batch[b].result)
    /\ followup.pc = "returned" /\ followup.result = "raise"

\* The generator's answer is one of the four category names, spelled exactly.
IsCategory(answer) ==
    /\ answer.exc = "none"
    /\ answer.val.t = "str"
    /\ \E k \in ValidCategories : CategorySpelling[k] = answer.val.s

\* The generator's answer becomes one of the four category names once stripped
\* of surrounding whitespace, lower-cased and its spaces made underscores.
IsCategoryOnceNormalised(answer) ==
    /\ answer.exc = "none"
    /\ answer.val.t = "str"
    /\ \E k \in ValidCategories :
          CategorySpelling[k] = ReplaceSpaces(Lower(Strip(answer.val.s)))

\* C4 as stated: classify_response never raises, returns one of the four
\* categories, and returns neutral whenever the generator raises or answers
\* with anything that is not one of the four category names.
C4_NeutralUnlessCategory ==
    aiCall.fn = "classify_response" =>
        /\ aiCall.res.exc = "none"
        /\ aiCall.res.val \in ValidCategories
        /\ ~IsCategory(aiCall.answer) => aiCall.res.val = "neutral"

\* C4, amended: classify_response never raises, returns one of the four
\* categories, and returns neutral whenever the generator raises or answers
\* with anything that is not a category name once stripped, lower-cased and with
\* underscores for spaces.
C4_NeutralUnlessNormalisedCategory ==
    aiCall.fn = "classify_response" =>
        /\ aiCall.res.exc = "none"
        /\ aiCall.res.val \in ValidCategories
        /\ ~IsCategoryOnceNormalised(aiCall.answer) => aiCall.res.val = "neutral"

C4_Witness ==
    /\ aiCall.fn = "classify_response"
    /\ aiCall.answer = Ok(PyStr(<<"m", "a", "y", "b", "e">>))
    /\ aiCall.res = Ok("neutral")

\* C5: score_lead returns interested->Hot, replied->Warm, neutral->Warm,
\* imported->Warm, sent->Warm, ooo->Warm, not_interested->Cold, booked->Hot, and
\* Warm for every other token.
C5_ScoreTable ==
    aiCall.fn = "score_lead" =>
        aiCall.res = Ok(CASE aiCall.answer = "interested" -> "Hot"
                          [] aiCall.answer = "replied" -> "Warm"
                          [] aiCall.answer = "neutral" -> "Warm"
                          [] aiCall.answer = "imported" -> "Warm"
                          [] aiCall.answer = "sent" -> "Warm"
                          [] aiCall.answer = "ooo" -> "Warm"
                          [] aiCall.answer = "not_interested" -> "Cold"
                          [] aiCall.answer = "booked" -> "Hot"
                          [] OTHER -> "Warm")

C5_Witness ==
    /\ aiCall.fn = "score_lead"
    /\ aiCall.answer = "Interested"
    /\ aiCall.res = Ok("Warm")

\* The body is a text in which the scheduling link appears.
BodyHasLink(body) == body.t = "str" /\ CALENDLY_LINK \in Range(body.s)

\* C6: generate_cold_email never raises and the body it returns contains the
\* scheduling link, on every path (JSON parsed, markers located, template).
C6_BodyAlwaysHasLink ==
    aiCall.fn = "generate_cold_email" =>
        /\ aiCall.res.exc = "none"
        /\ BodyHasLink(aiCall.res.val.body)

\* A monitor has just written the update for the reply it is processing.
JustUpdated(m) == monitor[m].pc = "mark" /\ monitor[m].open # 0

\* C7: the status a poll cycle persists for a matched reply is Interested for
\* interested, Not Interested for not_interested, replied for neutral and ooo.
C7_StatusFollowsClassification ==
    JustUpdated("bg") =>
        store[monitor["bg"].lead.id].status =
            CASE monitor["bg"].classification = "interested" -> "Interested"
              [] monitor["bg"].classification = "not_interested" -> "Not Interested"
              [] monitor["bg"].classification = "neutral" -> "replied"
              [] monitor["bg"].classification = "ooo" -> "replied"

C7_Witness ==
    /\ JustUpdated("bg")
    /\ monitor["bg"].classification = "ooo"
    /\ store[monitor["bg"].lead.id].status = "replied"

\* C8: the score a poll cycle persists for a matched reply is the score of the
\* reply's classification: Hot for interested, Cold for not_interested, Warm
\* for neutral and ooo.
C8_ScoreFollowsClassification ==
    JustUpdated("bg") =>
        store[monitor["bg"].lead.id].score =
            CASE monitor["bg"].classification = "interested" -> "Hot"
              [] monitor["bg"].classification = "not_interested" -> "Cold"
              [] monitor["bg"].classification = "neutral" -> "Warm"
              [] monitor["bg"].classification = "ooo" -> "Warm"

\* C9: the manual single-shot run executes the poll cycle exactly once and
\* returns, with no stop signal sent to it: it never begins a second cycle.
C9_ManualRunIsOneCycle == monitor["manual"].cycles <= 1

\* C10: the stop flag is observed only between poll cycles: the loop of run
\* ends only from its flag check, never from inside a cycle or from the sleep,
\* and never while a reply has its lead updated and its mark-read still to come.
C10_StopOnlyBetweenCycles ==
    [][\A m \in Monitors :
          (monitor[m].pc # "stopped" /\ monitor'[m].pc = "stopped") =>
              /\ monitor[m].pc = "while"
              /\ monitor[m].stop
              /\ monitor[m].open = 0]_vars

C10_Witness ==
    /\ monitor["bg"].pc = "stopped"
    /\ monitor["bg"].stopAt = "cycle"
    /\ \E msg \in DOMAIN inbox : ~inbox[msg].unread

\* C11: once stop has been signalled to the running monitor, its loop
\* eventually reaches Stopped, so that stop followed by join terminates.
C11_StopLeadsToStopped ==
    (Alive("bg") /\ monitor["bg"].stop) ~> (monitor["bg"].pc = "stopped")

C11_Witness ==
    /\ monitor["bg"].pc = "stopped"
    /\ monitor["bg"].stopAt = "sleep"
    /\ monitor["bg"].cycles >= 1

\* C12: a message a poll cycle has marked read is never a candidate of a later
\* cycle: every message a cycle holds to process is unread, so nothing is
\* written to the store on account of a read message.
C12_ReadNeverReconsidered ==
    monitor["bg"].pc \in {"lookup", "update", "mark"} =>
        \A j \in monitor["bg"].k..Len(monitor["bg"].replies) :
            inbox[monitor["bg"].replies[j]].unread

C12_Witness ==
    /\ monitor["bg"].cycles = 2
    /\ monitor["bg"].pc = "update"
    /\ \E msg \in DOMAIN inbox : ~inbox[msg].unread /\ inbox[msg].reply

\* A monitor writes the update of the message it wrote last, with the same
\* classification as then.
Rewrites(m) ==
    /\ monitor[m].pc = "update"
    /\ monitor'[m].pc = "mark"
    /\ monitor'[m].open # 0
    /\ monitor[m].last.msg = monitor[m].replies[monitor[m].k]
    /\ monitor[m].last.classification = monitor[m].classification

\* C13: when a message is reprocessed because marking it read failed, and the
\* classification is the same, the status and the score written are those of
\* the first time: the lead's status and score do not change.
C13_ReprocessingRewritesSame ==
    [][Rewrites("bg") =>
          LET id == monitor["bg"].lead.id
          IN  /\ store'[id].status = monitor["bg"].last.status
              /\ store'[id].score = monitor["bg"].last.score
              /\ store'[id].status = store[id].status
              /\ store'[id].score = store[id].score]_vars

C13_Witness ==
    /\ monitor["bg"].cycles = 2
    /\ JustUpdated("bg")
    /\ monitor["bg"].last.msg = monitor["bg"].open
    /\ monitor["bg"].last.n = 2
    /\ monitor["bg"].last.classification = "interested"
    /\ store[monitor["bg"].lead.id].status = "Interested"

\* The thread of message msg is the thread of no lead in the store.
Unmatched(msg) == \A l \in DOMAIN store : store[l].thread_id # inbox[msg].threadId

\* The monitor takes the lookup step of its current reply.
LooksUp(m) ==
    /\ monitor[m].pc = "lookup"
    /\ monitor'[m].pc # "lookup" \/ monitor'[m].k # monitor[m].k

\* C14: a candidate whose thread id matches no lead is skipped without error:
\* when the store answers the lookup, no lead record changes and the cycle goes
\* on to the next candidate (or ends normally after the last one).
C14_UnmatchedReplySkipped ==
    [][(/\ LooksUp("bg")
        /\ monitor'["bg"].fault = "none"
        /\ Unmatched(monitor["bg"].replies[monitor["bg"].k]))
       => /\ store' = store
          /\ monitor'["bg"].replies = monitor["bg"].replies
          /\ IF monitor["bg"].k < Len(monitor["bg"].replies)
             THEN monitor'["bg"].pc = "lookup" /\ monitor'["bg"].k = monitor["bg"].k + 1
             ELSE monitor'["bg"].pc = "sleep"]_vars

C14_Witness ==
    /\ db = "client"
    /\ monitor["bg"].k = 2
    /\ JustUpdated("bg")
    /\ Unmatched(monitor["bg"].replies[1])

\* C15: a poll cycle never propagates an exception to run, whatever the
\* gateway, the store or the classifier does; the loop of the running monitor
\* ends only because stop was signalled.
C15_CycleNeverRaises ==
    /\ monitor["bg"].pc # "raised"
    /\ monitor["bg"].pc = "stopped" => monitor["bg"].stop

C15_Witness ==
    /\ monitor["bg"].cycles = 2
    /\ monitor["bg"].pc = "fetch"
    /\ monitor["bg"].fault = "HttpError"
    /\ ~monitor["bg"].stop

\* The fields send_follow_up must leave alone.
FollowUpFrame == {"idField", "status", "score", "thread_id", "campaign_id"}

\* C16: a step of send_follow_up changes no lead but the one it was given, of
\* that lead nothing but last_activity and sent_count, and these only after a
\* successful send (then sent_count becomes the lead's count plus one); a
\* failed send changes no field.
C16_FollowUpTouchesTwoFields ==
    [][followup' # followup =>
          /\ \A l \in DOMAIN store : \A f \in FollowUpFrame : store'[l][f] = store[l][f]
          /\ \A l \in DOMAIN store : l # followup.lead.id => store'[l] = store[l]
          /\ store' # store =>
                /\ followup.result = "ok"
                /\ store'[followup.lead.id].sent_count = followup.lead.sent_count + 1
                /\ store'[followup.lead.id].last_activity = now
          /\ followup'.result \in {"raise", "empty"} =>
                store' = store /\ followup'.pc = "returned"]_vars

C16_Witness ==
    /\ followup.pc = "returned"
    /\ followup.wrote
    /\ store[followup.lead.id].sent_count = followup.lead.sent_count + 1
    /\ store[followup.lead.id].status = "imported"

\* C17: leads are processed in list order: when lead k has had its send
\* attempt, every lead before it has had its attempt, its store update (when
\* the send succeeded) and its delay, and no lead after the current one has
\* been touched.
C17_LeadsInListOrder ==
    \A b \in Batches :
        \A k \in DOMAIN batch[b].leads :
            /\ batch[b].attempts[k] >= 1 =>
                  \A j \in 1..(k - 1) :
                      /\ batch[b].result[j] # "pending"
                      /\ batch[b].sleeps[j] = 1
            /\ batch[b].pc = "update" => batch[b].result[batch[b].i] = "ok"
            /\ batch[b].wrote[k] => batch[b].result[k] = "ok" /\ k <= batch[b].i
            /\ k > batch[b].i =>
                  batch[b].result[k] = "pending" /\ batch[b].sleeps[k] = 0

C17_Witness ==
    \E b \in Batches :
        /\ batch[b].pc = "send"
        /\ batch[b].i = 2
        /\ batch[b].wrote[1]
        /\ batch[b].attempts = <<1, 0>>

\* The status tokens of the Lead model.
StatusTokens ==
    {"imported", "sent", "replied", "interested", "not_interested", "ooo", "booked"}

\* C18: in every reachable state of the store every lead's status is one of
\* imported, sent, replied, interested, not_interested, ooo, booked.
C18_StatusIsToken == \A l \in DOMAIN store : store[l].status \in StatusTokens

\* C19: the update step that follows a successful send in run_campaign_send
\* leaves the lead's record with status sent, the thread id the gateway
\* returned, the campaign's id, and its stored sent_count plus one.
C19_SuccessfulSendIsRecorded ==
    [][\A b \in Batches :
          (batch[b].pc = "update" /\ batch'[b].pc # "update") =>
              LET d == batch[b].leads[batch[b].i].doc
              IN  /\ store'[d].status = "sent"
                  /\ store'[d].thread_id = batch[b].thread_id
                  /\ store'[d].campaign_id = batch[b].campaign
                  /\ store'[d].sent_count = store[d].sent_count + 1]_vars

\* The lead whose thread message msg belongs to.
LeadOf(msg) == CHOOSE l \in DOMAIN store : store[l].thread_id = inbox[msg].threadId

\* The status and score of the lead of the last message m wrote for are those
\* of that write.
LastWriteStands(m) ==
    /\ monitor[m].last.msg # 0
    /\ store[LeadOf(monitor[m].last.msg)].status =
          StatusMapGet(monitor[m].last.classification, "replied")
    /\ store[LeadOf(monitor[m].last.msg)].score =
          score_lead(inbox[monitor[m].last.msg].snippet)

\* C20: when the background cycle and a manual cycle both write for the same
\* reply, the lead's (status, score) is the pair of one of the two writes, the
\* later one, never a mixture of the two.
C20_LastWriteWins ==
    (\E m \in Monitors : monitor[m].last.msg # 0) =>
        \E m \in Monitors : LastWriteStands(m)

C20_Witness ==
    /\ monitor["bg"].last.msg = 1 /\ monitor["manual"].last.msg = 1
    /\ monitor["bg"].last.classification = "interested"
    /\ monitor["manual"].last.classification = "not_interested"
    /\ monitor["bg"].pc = "mark" /\ monitor["manual"].pc = "sleep"
    /\ store[LeadOf(1)].status = "Interested"

\* C21: a lead's sent_count never decreases and is never negative, whatever
\* the interleaving of batch sends and follow-ups.
C21_SentCountMonotonic ==
    [][\A l \in DOMAIN store :
          /\ store[l].sent_count >= 0
          /\ store'[l].sent_count >= store[l].sent_count]_vars

\* C22: a lead's thread_id, once set, is never replaced by another thread id.
C22_ThreadIdSetOnce ==
    [][\A l \in DOMAIN store :
          store[l].thread_id # NoThread => store'[l].thread_id = store[l].thread_id]_vars

\* The send step of pass b ends in a failure: the gateway raised, or returned
\* an empty thread id.
SendFails(b) ==
    /\ batch[b].pc = "send"
    /\ batch'[b] # batch[b]
    /\ \/ batch'[b].result[batch[b].i] = "raise"
       \/ batch'[b].thread_id = NoThread

\* C26: a failed send in run_campaign_send leaves the store as it is, the
\* lead's record included: the pass goes on to its delay without an update.
C26_FailedSendWritesNothing ==
    [][\A b \in Batches :
          /\ SendFails(b) => store' = store /\ batch'[b].pc = "sleep"
          /\ batch[b].pc = "update" =>
                /\ batch[b].thread_id # NoThread
                /\ batch[b].result[batch[b].i] = "ok"]_vars

C26_Witness ==
    \E b \in Batches :
        /\ batch[b].pc = "returned"
        /\ batch[b].result = <<"empty", "empty">>
        /\ \A l \in DOMAIN store : store[l] \in FreshDocs

\* C29: a delay follows every send attempt of a pass, failed or not: a lead is
\* attempted once more than it was delayed only while its iteration runs, and
\* every earlier lead, and every lead of a finished pass, had its delay.
C29_DelayAfterEverySend ==
    \A b \in Batches :
        \A k \in DOMAIN batch[b].leads :
            /\ batch[b].sleeps[k] <= batch[b].attempts[k]
            /\ batch[b].attempts[k] <= batch[b].sleeps[k] + 1
            /\ batch[b].attempts[k] > batch[b].sleeps[k] =>
                  k = batch[b].i /\ batch[b].pc \in {"update", "sleep"}
            /\ batch[b].pc = "returned" => batch[b].sleeps[k] = 1

C29_Witness ==
    \E b \in Batches :
        /\ batch[b].pc = "send"
        /\ batch[b].i = 2
        /\ batch[b].result[1] = "raise"
        /\ batch[b].sleeps = <<1, 0>>

\* C23: an error raised while one reply is processed does not keep the
\* remaining candidates of the cycle from being processed: while candidates
\* remain, no step of the cycle ends the cycle.
C23_ErrorKeepsRemainingReplies ==
    [][(/\ monitor["bg"].pc \in {"lookup", "update", "mark"}
        /\ monitor["bg"].k < Len(monitor["bg"].replies))
       => monitor'["bg"].pc \notin {"sleep", "raised"}]_vars

\* Message msg goes from unread to read.
Consumed(msg) == inbox[msg].unread /\ ~inbox'[msg].unread

\* C24: a message is marked read only after the update of its lead has been
\* persisted: when it is marked, the monitor's write for it is in the store.
C24_ReadOnlyAfterUpdate ==
    [][\A msg \in DOMAIN inbox :
          Consumed(msg) =>
              /\ monitor["bg"].pc = "mark"
              /\ monitor["bg"].open = msg
              /\ monitor["bg"].last.msg = msg
              /\ store[monitor["bg"].lead.id].status = monitor["bg"].last.status
              /\ store[monitor["bg"].lead.id].score = monitor["bg"].last.score
              /\ store[monitor["bg"].lead.id].status \notin {"imported", "sent"}]_vars

C24_Witness ==
    /\ monitor["bg"].pc = "sleep"
    /\ monitor["bg"].last.msg # 0
    /\ ~inbox[monitor["bg"].last.msg].unread
    /\ store[LeadOf(monitor["bg"].last.msg)].status = "Not Interested"

\* The monitor goes to the lookup of a reply.
TurnsToReply(m) ==
    /\ monitor'[m].pc = "lookup"
    /\ monitor[m].pc # "lookup" \/ monitor'[m].k # monitor[m].k

\* C27: within a cycle the replies are taken one at a time in the order the
\* gateway returned them: the lookup of reply k+1 starts from the end of
\* reply k (its skip, or its mark-read after its update), with no update
\* waiting for its mark-read.
C27_RepliesInGatewayOrder ==
    [][TurnsToReply("bg") =>
          /\ monitor["bg"].pc \in {"fetch", "lookup", "mark"}
          /\ monitor'["bg"].open = 0
          /\ IF monitor["bg"].pc = "fetch"
             THEN monitor'["bg"].k = 1
             ELSE /\ monitor'["bg"].k = monitor["bg"].k + 1
                  /\ monitor'["bg"].replies = monitor["bg"].replies]_vars

C27_Witness ==
    /\ monitor["bg"].pc = "lookup"
    /\ monitor["bg"].k = 2
    /\ monitor["bg"].last.msg = monitor["bg"].replies[1]
    /\ ~inbox[monitor["bg"].replies[1]].unread

\* C28: a monitor instance runs at most once: once Stopped it stays Stopped,
\* whatever start_monitor does, it runs no further poll cycle, and its stop
\* flag is never cleared.
C28_StoppedStaysStopped ==
    [][/\ monitor["bg"].pc = "stopped" =>
            /\ monitor'["bg"].pc = "stopped"
            /\ monitor'["bg"].cycles = monitor["bg"].cycles
       /\ monitor["bg"].stop => monitor'["bg"].stop]_vars

C28_Witness ==
    /\ monitor["bg"].pc = "stopped"
    /\ monitor["bg"].refused
    /\ monitor["bg"].cycles >= 1

\* Message msg is an unread reply candidate on the thread of a lead.
Pending(msg) == inbox[msg].unread /\ inbox[msg].reply /\ ~Unmatched(msg)

\* Message msg was processed: its lead has the monitor's update and the
\* message is read.
Processed(msg) ==
    /\ ~inbox[msg].unread
    /\ store[LeadOf(msg)].status \in {"Interested", "Not Interested", "replied"}

\* C25: while the monitor runs and its calls succeed, every unread reply
\* candidate on a lead's thread is eventually processed: the lead is updated
\* and the message marked read (unless the monitor is told to stop first).
C25_PendingReplyProcessed ==
    \A msg \in MsgIds :
        (Alive("bg") /\ ~monitor["bg"].stop /\ Pending(msg))
            ~> (Processed(msg) \/ monitor["bg"].stop)

C25_Witness ==
    /\ ~monitor["bg"].stop
    /\ monitor["bg"].cycles = 1
    /\ \A msg \in MsgIds : inbox[msg].reply /\ ~Unmatched(msg) /\ Processed(msg)

\* An email value is a text with an "@" and a ".".
WellFormed(email) ==
    email.t = "str" /\ "@" \in Range(email.s) /\ "." \in Range(email.s)

\* C30: no lead whose email lacks "@" or "." is ever stored: save_lead rejects
\* such a record, raising, and leaves the store unchanged; every stored lead's
\* email has both characters.
C30_OnlyWellFormedEmailsStored ==
    [][/\ \A l \in DOMAIN store' : WellFormed(store'[l].email)
       /\ (aiCall'.fn = "save_lead" /\ ~WellFormed(aiCall'.answer.email)) =>
             store' = store /\ aiCall'.res.exc = "ValidationError"]_vars

C30_Witness ==
    /\ Len(store) = 1
    /\ WellFormed(store[1].email)
    /\ aiCall.fn = "save_lead"
    /\ aiCall.answer.email = PyStr(<<"a", "@", "b">>)
    /\ aiCall.res.exc = "ValidationError"

\* C31: once the stop flag of the running monitor is set, at most one further
\* poll cycle begins before the loop exits, namely the one whose flag check
\* had passed when stop was set; no flag check passes after the stop, and a
\* stop set before the first flag check of the loop results in no cycle at all.
C31_AtMostOneCycleAfterStop ==
    monitor["bg"].stop =>
        /\ Begun(monitor["bg"]) - monitor["bg"].stopBegun \in {0, 1}
        /\ monitor["bg"].cycles - monitor["bg"].stopBegun \in {0, 1}
        /\ (monitor["bg"].stopAt = "while" =>
               monitor["bg"].cycles = monitor["bg"].stopBegun)
        /\ (monitor["bg"].stopAt = "while" /\ monitor["bg"].stopBegun = 0 =>
               monitor["bg"].cycles = 0)

C31_Witness ==
    /\ monitor["bg"].pc = "stopped"
    /\ monitor["bg"].stopBegun = 1
    /\ monitor["bg"].cycles = 2
    /\ \E msg \in DOMAIN inbox : ~inbox[msg].unread

\* The monitor's update of its current reply reaches the store.
Writes(m) ==
    /\ monitor[m].pc = "update"
    /\ monitor'[m].pc = "mark"
    /\ monitor'[m].open # 0

\* The fields of a lead a poll cycle must leave alone.
MonitorFrame == {"idField", "thread_id", "campaign_id", "sent_count"}

\* C32: a poll cycle changes, in the lead matched by a reply, only status,
\* score and last_activity; thread_id, sent_count, campaign_id and the other
\* fields of every lead stay as they are, and a lead is written only by the
\* update for a reply of the cycle whose thread is the lead's.
C32_CycleWritesThreeFields ==
    [][\A l \in DOMAIN store :
          /\ \A f \in MonitorFrame : store'[l][f] = store[l][f]
          /\ (store'[l] # store[l] \/ (Writes("bg") /\ monitor["bg"].lead.id = l))
                => /\ monitor["bg"].pc = "update"
                   /\ monitor["bg"].lead.doc = l
                   /\ monitor["bg"].replies[monitor["bg"].k] \in ReplyCandidates
                   /\ store[l].thread_id = inbox[monitor["bg"].replies[monitor["bg"].k]].threadId
                   /\ \A o \in DOMAIN store \ {l} : store'[o] = store[o]]_vars

C32_Witness ==
    /\ JustUpdated("bg")
    /\ monitor["bg"].cycles = 1
    /\ monitor["bg"].k = 2
    /\ \E l \in DOMAIN store :
          /\ store[l] = [SentDoc(l) EXCEPT !.status = "Interested", !.score = "Hot"]
          /\ \A o \in DOMAIN store \ {l} : store[o] = SentDoc(o)

\* The monitor's get_replies call returns.
Fetches(m) == monitor[m].pc = "fetch" /\ monitor'[m].pc # "fetch"

\* Message msg is a reply candidate on the thread of no lead.
UnmatchedCandidate(msg) ==
    inbox[msg].reply /\ inbox[msg].unread /\ Unmatched(msg)

====
